---- MODULE Spec2Model ----
(***************************************************************************)
(* A model of src/src/types.rs (ton-labs-block): the variable-length       *)
(* integer family (define_VarIntegerN), the bounded integers               *)
(* (define_NumberN_up32bit), the typed map wrapper (define_HashmapE),      *)
(* ChildCell and GenericId.                                                *)
(*                                                                         *)
(* Numbers wider than TLC's integers (u32, u64, u128, usize, BigInt) are   *)
(* sequences of bits, most significant bit first.  A fixed-width word has  *)
(* exactly its width in bits; a BigInt is a sign and a magnitude without   *)
(* leading zero bits.  A byte vector is a bit sequence whose length is a   *)
(* multiple of 8.                                                          *)
(***************************************************************************)
EXTENDS Integers, Sequences, FiniteSets, TLC

VARIABLES
    ty,        \* the concrete type the macro was instantiated for
    val,       \* self.0 of the value that is built, changed and written
    got,       \* self.0 of the value that read_from is called on
    builder,   \* the destination BuilderData
    slice,     \* the SliceData cursor
    origin,    \* ghost: what the slice was made from
    log,       \* ghost: what the builder holds: its first bits and the values written after them
    res,       \* ghost: the last call, its arguments and its result
    nops,      \* ghost: number of add/sub calls since the last constructor
    clean,     \* ghost: the amount was built and changed with non-negative values only
    map,       \* the HashmapE inside a define_HashmapE map: key bits -> value slice
    shadow,    \* ghost: key -> the value last set under it and not removed since
    child,     \* a ChildCell: [cell |-> the cell it holds]
    written,   \* ghost: what was last stored in the ChildCell, and the reads since
    content,   \* the content of a structure that implements GenericId
    id_internal, \* its cached id: Option<UInt256>
    seen       \* ghost: the last id() and calc_id() calls, their snapshots and results

codecVars == <<ty, val, got, builder, slice, origin, log, nops, clean>>

mapVars == <<map, shadow>>

idVars == <<content, id_internal, seen>>

vars == <<codecVars, res, mapVars, child, written, idVars>>

\* what the calls on numbers leave alone
nonCodec == <<mapVars, child, written, idVars>>

-----------------------------------------------------------------------------
(* Bit sequences *)

Zeros(n) == [i \in 1..n |-> 0]

Ones(n) == [i \in 1..n |-> 1]

\* 2^n as a magnitude
Pow2(n) == <<1>> \o Zeros(n)

\* the number of leading zero bits of a word (u32::leading_zeros and the like)
leading_zeros(b) ==
    IF \A i \in 1..Len(b) : b[i] = 0 THEN Len(b)
    ELSE (CHOOSE i \in 1..Len(b) : b[i] = 1 /\ \A j \in 1..(i - 1) : b[j] = 0) - 1

\* a bit sequence without its leading zero bits
Strip(b) == SubSeq(b, leading_zeros(b) + 1, Len(b))

\* the low w bits of b, zero-extended: an `as` cast to a w-bit unsigned type
Low(b, w) ==
    IF Len(b) >= w THEN SubSeq(b, Len(b) - w + 1, Len(b))
    ELSE Zeros(w - Len(b)) \o b

RECURSIVE NatBits(_)
\* a small natural number as a magnitude
NatBits(n) == IF n = 0 THEN <<>> ELSE Append(NatBits(n \div 2), n % 2)

RECURSIVE BitsNatFrom(_, _, _)
BitsNatFrom(b, i, acc) ==
    IF i > Len(b) THEN acc ELSE BitsNatFrom(b, i + 1, 2 * acc + b[i])

\* the value of a short bit sequence
BitsNat(b) == BitsNatFrom(b, 1, 0)

\* the nearest position below i where P holds, 0 if there is none
\* (position 1 is the most significant bit, position w the least)
NearestBelow(i, w, P(_)) ==
    IF \A k \in (i + 1)..w : ~P(k) THEN 0
    ELSE CHOOSE k \in (i + 1)..w : P(k) /\ \A j \in (i + 1)..(k - 1) : ~P(j)

\* the sum of two magnitudes: bit i is a[i] + b[i] + the carry into i, and
\* the carry comes from the nearest lower position that does not pass it on
MagAdd(a, b) ==
    LET w == (IF Len(a) > Len(b) THEN Len(a) ELSE Len(b)) + 1
        x == Low(a, w)
        y == Low(b, w)
        Same(k) == x[k] = y[k]
        carry(i) == LET k == NearestBelow(i, w, Same) IN IF k = 0 THEN 0 ELSE x[k]
    IN  Strip([i \in 1..w |-> (x[i] + y[i] + carry(i)) % 2])

\* the difference of two magnitudes, a >= b: the borrow comes from the
\* nearest lower position where the bits differ
MagSub(a, b) ==
    LET w == Len(a)
        y == Low(b, w)
        Differ(k) == a[k] # y[k]
        borrow(i) == LET k == NearestBelow(i, w, Differ) IN IF k = 0 THEN 0 ELSE y[k]
    IN  Strip([i \in 1..w |-> (a[i] + y[i] + borrow(i)) % 2])

\* -1, 0, 1 as a < b, a = b, a > b, for magnitudes
MagCmp(a, b) ==
    IF Len(a) # Len(b) THEN (IF Len(a) < Len(b) THEN -1 ELSE 1)
    ELSE IF a = b THEN 0
    ELSE LET i == CHOOSE k \in 1..Len(a) : a[k] # b[k] /\ \A j \in 1..(k - 1) : a[j] = b[j]
         IN  IF a[i] < b[i] THEN -1 ELSE 1

-----------------------------------------------------------------------------
(* num::BigInt, as types.rs uses it *)

BigOf(sign, mag) ==
    [sign |-> IF Strip(mag) = <<>> THEN "NoSign" ELSE sign, mag |-> Strip(mag)]

BigZero == BigOf("NoSign", <<>>)

BigOne == BigOf("Plus", <<1>>)

BigNeg(x) ==
    BigOf(CASE x.sign = "Plus" -> "Minus" [] x.sign = "Minus" -> "Plus"
            [] OTHER -> "NoSign", x.mag)

\* BigInt::bits: the bits of the magnitude
BigBits(x) == Len(x.mag)

\* Ord::cmp on BigInt
BigCmp(x, y) ==
    LET rank(s) == CASE s = "Minus" -> 0 [] s = "NoSign" -> 1 [] OTHER -> 2
    IN  IF x.sign # y.sign THEN (IF rank(x.sign) < rank(y.sign) THEN -1 ELSE 1)
        ELSE IF x.sign = "Minus" THEN MagCmp(y.mag, x.mag)
        ELSE MagCmp(x.mag, y.mag)

\* self.0 >= other.0
BigGe(x, y) == BigCmp(x, y) >= 0

\* self.0 += &other.0
BigAdd(x, y) ==
    IF x.sign = "NoSign" THEN y
    ELSE IF y.sign = "NoSign" THEN x
    ELSE IF x.sign = y.sign THEN BigOf(x.sign, MagAdd(x.mag, y.mag))
    ELSE IF MagCmp(x.mag, y.mag) >= 0 THEN BigOf(x.sign, MagSub(x.mag, y.mag))
    ELSE BigOf(y.sign, MagSub(y.mag, x.mag))

\* self.0 -= &other.0
BigSub(x, y) == BigAdd(x, BigNeg(y))

\* BigInt::to_bytes_be().1: the magnitude's bytes; zero is the single byte 0
to_bytes_be(x) ==
    IF x.mag = <<>> THEN Zeros(8)
    ELSE Zeros((8 - (Len(x.mag) % 8)) % 8) \o x.mag

\* BigInt::from_bytes_be(Sign::Plus, bytes)
from_bytes_be(bytes) == BigOf("Plus", bytes)

\* (BigInt::from(hi) << 128) | BigInt::from(lo), hi and lo being u128 words
FromTwo(hi, lo) == BigOf("Plus", hi \o lo)

-----------------------------------------------------------------------------
(* Results: Ok(v) or Err(e) *)

Ok(v) == [ok |-> TRUE, err |-> "", v |-> v]

Err(e, v) == [ok |-> FALSE, err |-> e, v |-> v]

-----------------------------------------------------------------------------
(* BuilderData and SliceData, as far as types.rs calls them *)

\* BuilderData::default()
BuilderDefault == [data |-> <<>>, refs |-> <<>>]

\* BuilderData::bits_capacity()
BitsCapacity == 1024 - 1

\* the references a cell can hold
RefsCapacity == 2 + 2

\* `n as usize` for a small number n
Usize(n) == Low(NatBits(n), 64)

\* IBitstring::append_raw(slice, bits): the first `bits` bits of the bytes
append_raw(b, bytes, bits) ==
    IF Len(bytes) < bits THEN Err("FatalError", b)
    ELSE IF Len(b.data) + bits > BitsCapacity THEN Err("CellOverflow", b)
    ELSE Ok([b EXCEPT !.data = @ \o SubSeq(bytes, 1, bits)])

\* IBitstring::append_bits(value, bits): the low `bits` bits of value
append_bits(b, value, bits) ==
    IF Len(b.data) + bits > BitsCapacity THEN Err("CellOverflow", b)
    ELSE Ok([b EXCEPT !.data = @ \o Low(value, bits)])

\* BuilderData::append_builder(other)
append_builder(b, other) ==
    IF \/ Len(b.data) + Len(other.data) > BitsCapacity
       \/ Len(b.refs) + Len(other.refs) > RefsCapacity
    THEN Err("CellOverflow", b)
    ELSE Ok([data |-> b.data \o other.data, refs |-> b.refs \o other.refs])

\* BuilderData::is_empty()
is_empty(b) == Len(b.data) = 0 /\ Len(b.refs) = 0

\* a cell: its type, its bits and its references (named by their hashes)
Cell(type, data, refs) == [type |-> type, data |-> data, refs |-> refs]

\* BuilderData -> Arc<CellData> (.into())
IntoCell(b) == Cell("Ordinary", b.data, b.refs)

\* SliceData::from(cell): the window over all of the cell
SliceFrom(c) ==
    [cell |-> c, pos |-> 0, end |-> Len(c.data), rpos |-> 0, rend |-> Len(c.refs)]

\* the bits left in the window
Remaining(s) == SubSeq(s.cell.data, s.pos + 1, s.end)

\* SliceData::is_full_cell_slice()
is_full_cell_slice(s) ==
    /\ s.pos = 0 /\ s.end = Len(s.cell.data)
    /\ s.rpos = 0 /\ s.rend = Len(s.cell.refs)

\* SliceData::get_next_int(bits) -> u64; .s is the cursor afterwards
get_next_int(s, bits) ==
    IF bits > 64 THEN [ok |-> FALSE, err |-> "RangeCheckError", v |-> Zeros(64), s |-> s]
    ELSE IF s.end - s.pos < bits
    THEN [ok |-> FALSE, err |-> "CellUnderflow", v |-> Zeros(64), s |-> s]
    ELSE [ok |-> TRUE, err |-> "",
          v |-> Low(SubSeq(s.cell.data, s.pos + 1, s.pos + bits), 64),
          s |-> [s EXCEPT !.pos = @ + bits]]

\* SliceData::get_next_bytes(bytes) -> Vec<u8>; .s is the cursor afterwards
get_next_bytes(s, bytes) ==
    IF s.end - s.pos < 8 * bytes
    THEN [ok |-> FALSE, err |-> "CellUnderflow", v |-> <<>>, s |-> s]
    ELSE [ok |-> TRUE, err |-> "",
          v |-> SubSeq(s.cell.data, s.pos + 1, s.pos + 8 * bytes),
          s |-> [s EXCEPT !.pos = @ + 8 * bytes]]

-----------------------------------------------------------------------------
(* define_VarIntegerN *)

BigIntTypes == {"Grams", "VarUInteger32"}

PrimTypes == {"VarUInteger3", "VarUInteger7"}

VarTypes == BigIntTypes \cup PrimTypes

\* $N of the four instantiations
N(t) ==
    CASE t = "Grams" -> 16
      [] t = "VarUInteger32" -> 32
      [] t = "VarUInteger3" -> 3
      [] t = "VarUInteger7" -> 7

\* the width of the word held: u64 for VarUInteger7, u32 for VarUInteger3 and
\* the NumberN types
Width(t) == IF t = "VarUInteger7" THEN 64 ELSE IF t = "u8" THEN 8 ELSE 32

\* get_len without the rounding up: value.bits() >> 3
get_len_truncating(value) == BigBits(value) \div 8

\* (value.bits() + 7) >> 3
get_len(value) == (BigBits(value) + 7) \div 8

\* fails when get_len(value) > $N
check_owerflow(t, value) ==
    IF get_len(value) > N(t) THEN Err("InvalidArg", value) ELSE Ok(value)

\* ($N - 1 as f64).log2() as usize + 1
get_len_len(t) == (Len(NatBits(N(t) - 1)) - 1) + 1

\* write_to_cell with the range check of check_owerflow: len > $N
write_to_cell_off_by_one(t, value) ==
    LET len == get_len(value)
    IN  IF len > N(t) THEN Err("RangeCheckError", BuilderDefault)
        ELSE LET r1 == append_bits(BuilderDefault, Usize(len), get_len_len(t))
             IN  IF ~r1.ok THEN r1
                 ELSE append_raw(r1.v, to_bytes_be(value), len * 8)

\* write_to_cell of the BigInt arm
write_to_cell(t, value) ==
    LET len == get_len(value)
    IN  IF len >= N(t) THEN Err("RangeCheckError", BuilderDefault)
        ELSE LET r1 == append_bits(BuilderDefault, Usize(len), get_len_len(t))
             IN  IF ~r1.ok THEN r1
                 ELSE append_raw(r1.v, to_bytes_be(value), len * 8)

\* read_from_cell of the BigInt arm; .s is the cursor afterwards
read_from_cell(t, cell) ==
    LET r1 == get_next_int(cell, get_len_len(t))
        len == BitsNat(Strip(r1.v))
    IN  IF ~r1.ok THEN [ok |-> FALSE, err |-> r1.err, v |-> BigZero, s |-> r1.s]
        ELSE IF len >= N(t)
        THEN [ok |-> FALSE, err |-> "RangeCheckError", v |-> BigZero, s |-> r1.s]
        ELSE LET r2 == get_next_bytes(r1.s, len)
             IN  IF ~r2.ok THEN [ok |-> FALSE, err |-> r2.err, v |-> BigZero, s |-> r2.s]
                 ELSE [ok |-> TRUE, err |-> "", v |-> from_bytes_be(r2.v), s |-> r2.s]

\* Serializable::write_to of the BigInt arm; .v is the destination afterwards
write_to_BigInt(t, self, cell) ==
    LET data == write_to_cell(t, self)
    IN  IF ~data.ok THEN Err(data.err, cell)
        ELSE append_builder(cell, data.v)

\* Deserializable::read_from of the BigInt arm; .v is self.0 afterwards
read_from_BigInt(t, self, cell) ==
    LET r == read_from_cell(t, cell)
    IN  IF ~r.ok THEN [r EXCEPT !.v = self] ELSE r

\* add that stops at the largest amount of 15 bytes
add_saturating(self, other) ==
    IF get_len(BigAdd(self, other)) > 15 THEN BigOf("Plus", Ones(8 * 15))
    ELSE BigAdd(self, other)

\* AddSub::add: self.0 afterwards
add(self, other) == BigAdd(self, other)

\* Augmentable for Grams, calc: self.0 afterwards
calc(self, other) == BigAdd(self, other)

\* sub without the comparison
sub_unchecked(self, other) == [v |-> BigSub(self, other), ret |-> TRUE]

\* AddSub::sub: .v is self.0 afterwards, .ret the bool returned
sub(self, other) ==
    IF BigGe(self, other) THEN [v |-> BigSub(self, other), ret |-> TRUE]
    ELSE [v |-> self, ret |-> FALSE]

\* 8 - ($N as u8).leading_zeros()
LenBits(t) == 8 - leading_zeros(Low(NatBits(N(t)), 8))

\* (0 as $tt).leading_zeros() / 8 - self.0.leading_zeros() / 8
ByteCount(t, self) ==
    (leading_zeros(Zeros(Width(t))) \div 8) - (leading_zeros(self) \div 8)

\* Serializable::write_to of the primitive arm; .v is the destination afterwards
write_to_prim(t, self, cell) ==
    LET bits == LenBits(t)
        bytes == ByteCount(t, self)
    IN  IF bytes > N(t) THEN Err("IntegerOverflow", cell)
        ELSE LET r1 == append_bits(cell, Usize(bytes), bits)
             IN  IF ~r1.ok THEN r1
                 ELSE append_bits(r1.v, Low(self, 64), bytes * 8)

\* Deserializable::read_from of the primitive arm; .v is self.0 afterwards
read_from_prim(t, self, cell) ==
    LET bits == LenBits(t)
        r1 == get_next_int(cell, bits)
    IN  IF ~r1.ok THEN [r1 EXCEPT !.v = self]
        ELSE LET r2 == get_next_int(r1.s, BitsNat(Strip(r1.v)) * 8)
             IN  IF ~r2.ok THEN [r2 EXCEPT !.v = self]
                 ELSE [r2 EXCEPT !.v = Low(r2.v, Width(t))]

-----------------------------------------------------------------------------
(* define_NumberN_up32bit *)

NumTypes ==
    {"Number5", "Number8", "Number9", "Number12", "Number13", "Number16", "Number32"}

\* $N of the seven instantiations
NumBits(t) ==
    CASE t = "Number5" -> 5
      [] t = "Number8" -> 8
      [] t = "Number9" -> 9
      [] t = "Number12" -> 12
      [] t = "Number13" -> 13
      [] t = "Number16" -> 16
      [] t = "Number32" -> 32

\* value <= max_value on u32 words
U32Le(value, max_value) == MagCmp(Strip(value), Strip(max_value)) <= 0

\* from_u32 that refuses value = max_value: value >= max_value
from_u32_strict(value, max_value) ==
    IF MagCmp(Strip(value), Strip(max_value)) >= 0 THEN Err("InvalidArg", value)
    ELSE Ok(value)

\* $varname::from_u32(value, max_value)
from_u32(value, max_value) ==
    IF ~U32Le(value, max_value) THEN Err("InvalidArg", value) ELSE Ok(value)

\* $varname::get_max_len(): (((1 as u64) << $N) - 1) as usize
get_max_len(t) ==
    LET one == Low(<<1>>, 64)
        shifted == Low(one \o Zeros(NumBits(t)), 64)
    IN  Low(Low(MagSub(Strip(shifted), <<1>>), 64), 64)

\* Serializable::write_to of a NumberN; .v is the destination afterwards
write_to_Number(t, self, cell) == append_bits(cell, Low(self, 64), NumBits(t))

\* Deserializable::read_from of a NumberN; .v is self.0 afterwards
read_from_Number(t, self, cell) ==
    LET r == get_next_int(cell, NumBits(t))
    IN  IF ~r.ok THEN [r EXCEPT !.v = self] ELSE [r EXCEPT !.v = Low(r.v, 32)]

-----------------------------------------------------------------------------
(* u8 *)

\* write_to that appends the byte shifted right by one bit
write_to_u8_shifted(self, cell) == append_bits(cell, <<0>> \o SubSeq(self, 1, 7), 8)

\* Serializable for u8: append_u8; .v is the destination afterwards
write_to_u8(self, cell) == append_bits(cell, self, 8)

\* Deserializable for u8: get_next_byte; .v is self afterwards
read_from_u8(self, cursor) ==
    LET r == get_next_int(cursor, 8)
    IN  IF ~r.ok THEN [r EXCEPT !.v = self] ELSE [r EXCEPT !.v = Low(r.v, 8)]

-----------------------------------------------------------------------------

\* Serializable::write_to of the type t
write_to(t, self, cell) ==
    IF t \in BigIntTypes THEN write_to_BigInt(t, self, cell)
    ELSE IF t \in PrimTypes THEN write_to_prim(t, self, cell)
    ELSE IF t = "u8" THEN write_to_u8(self, cell)
    ELSE write_to_Number(t, self, cell)

\* Deserializable::read_from of the type t
read_from(t, self, cell) ==
    IF t \in BigIntTypes THEN read_from_BigInt(t, self, cell)
    ELSE IF t \in PrimTypes THEN read_from_prim(t, self, cell)
    ELSE IF t = "u8" THEN read_from_u8(self, cell)
    ELSE read_from_Number(t, self, cell)

\* the number of bytes the value held by a t needs
ByteLen(t, self) ==
    IF t \in BigIntTypes THEN get_len(self) ELSE (Len(Strip(self)) + 7) \div 8

-----------------------------------------------------------------------------
(* Option, and the states of the parts a specification does not use *)

None == [some |-> FALSE]

Some(v) == [some |-> TRUE, v |-> v]

\* a map without entries
EmptyMap == [k \in {} |-> None]

NoneSeen == [id |-> None, calc |-> None]

\* the ghost of a ChildCell that no value was stored in: .v the value last
\* stored by with_struct or write_struct (.by) and not replaced by read_from
\* since, .reads the results of the last two read_struct calls since the
\* held cell was last assigned
NothingWritten == [v |-> None, by |-> "-", reads |-> <<>>]

\* Default::default() of the type t
DefaultOf(t) == IF t \in BigIntTypes THEN BigZero ELSE Zeros(Width(t))

\* Serializable::write_to_new_cell: .v is the new builder
write_to_new_cell(t, self) == write_to(t, self, BuilderDefault)

\* Deserializable::construct_from::<t>(slice): .v is the value, .s the cursor afterwards
construct_from(t, cursor) == read_from(t, DefaultOf(t), cursor)

-----------------------------------------------------------------------------
(* HashmapE, the dictionary of ton_types that define_HashmapE wraps: the
   entries as a function from the key bits to the bits and references of
   the value *)

HashmapE_with_bit_len(n) == [bit_len |-> n, data |-> EmptyMap]

\* the bits and references left in a cursor
Rest(s) == [data |-> Remaining(s), refs |-> SubSeq(s.cell.refs, s.rpos + 1, s.rend)]

\* HashmapE::set(key, value): .v is the dictionary afterwards
HashmapE_set(h, key, value) ==
    IF Len(Remaining(key)) # h.bit_len THEN Err("FatalError", h)
    ELSE Ok([h EXCEPT !.data =
                [k \in DOMAIN h.data \cup {Remaining(key)} |->
                    IF k = Remaining(key) THEN Rest(value) ELSE h.data[k]]])

\* HashmapE::get(key): .v is Option<SliceData>
HashmapE_get(h, key) ==
    IF Len(Remaining(key)) # h.bit_len THEN Err("FatalError", None)
    ELSE IF Remaining(key) \in DOMAIN h.data
    THEN Ok(Some(SliceFrom(IntoCell(h.data[Remaining(key)]))))
    ELSE Ok(None)

\* HashmapE::remove(key): .v is the dictionary afterwards
HashmapE_remove(h, key) ==
    IF Len(Remaining(key)) # h.bit_len THEN Err("FatalError", h)
    ELSE Ok([h EXCEPT !.data = [k \in DOMAIN h.data \ {Remaining(key)} |-> h.data[k]]])

\* HashmapE::len()
HashmapE_len(h) == Ok(Cardinality(DOMAIN h.data))

\* the keys in the order HashmapE::iterate visits them: ascending bits
HashmapE_order(h) ==
    [i \in 1..Cardinality(DOMAIN h.data) |->
        CHOOSE k \in DOMAIN h.data :
            Cardinality({j \in DOMAIN h.data : BitsNat(j) < BitsNat(k)}) = i - 1]

\* HashmapE::iterate(p) where p(key, value) gives the result of the closure
\* on an entry ([ok, err, arg]: the closure's own work failed or p was
\* called with arg) and p stops the iteration at its stop-th call (0: never):
\* .calls are the arguments p was called with, .v the bool returned
HashmapE_iterate(h, closure(_, _), stop) ==
    LET ord == HashmapE_order(h)
        n == Len(ord)
        at(i) == closure(SliceFrom(IntoCell([data |-> ord[i], refs |-> <<>>])),
                         SliceFrom(IntoCell(h.data[ord[i]])))
        bad == {i \in 1..n : ~at(i).ok}
        firstBad == IF bad = {} THEN n + 1 ELSE CHOOSE i \in bad : \A j \in bad : i <= j
        last == IF stop = 0 \/ stop > n THEN n ELSE stop
    IN  IF firstBad <= last
        THEN [ok |-> FALSE, err |-> at(firstBad).err, v |-> FALSE,
              calls |-> [i \in 1..(firstBad - 1) |-> at(i).arg]]
        ELSE [ok |-> TRUE, err |-> "", v |-> ~(stop \in 1..n),
              calls |-> [i \in 1..last |-> at(i).arg]]

-----------------------------------------------------------------------------
(* define_HashmapE!(_, 8, Grams), used with u8 keys *)

bit_len == 8

x_type == "Grams"

K == "u8"

\* Default for $varname
MapDefault == HashmapE_with_bit_len(bit_len)

\* $varname::len
len(self) == HashmapE_len(self)

\* the closure of iterate
iterate_closure(key, cursor) ==
    LET r == construct_from(x_type, cursor)
    IN  [ok |-> r.ok, err |-> r.err, arg |-> r.v]

\* $varname::iterate
iterate(self, stop) == HashmapE_iterate(self, iterate_closure, stop)

\* the closure of iterate_with_keys
iterate_with_keys_closure(key, cursor) ==
    LET k == construct_from(K, key)
        r == construct_from(x_type, cursor)
    IN  IF ~k.ok THEN [ok |-> FALSE, err |-> k.err, arg |-> <<k.v, r.v>>]
        ELSE [ok |-> r.ok, err |-> r.err, arg |-> <<k.v, r.v>>]

\* $varname::iterate_with_keys
iterate_with_keys(self, stop) == HashmapE_iterate(self, iterate_with_keys_closure, stop)

\* $varname::set: .v is self.0 afterwards
set(self, key, value) ==
    LET k == write_to_new_cell(K, key)
        v == write_to_new_cell(x_type, value)
    IN  IF ~k.ok THEN Err(k.err, self)
        ELSE IF ~v.ok THEN Err(v.err, self)
        ELSE HashmapE_set(self, SliceFrom(IntoCell(k.v)), SliceFrom(IntoCell(v.v)))

\* $varname::get: .v is Option<$x_type>
get(self, key) ==
    LET k == write_to_new_cell(K, key)
        g == IF k.ok THEN HashmapE_get(self, SliceFrom(IntoCell(k.v))) ELSE Err(k.err, None)
        x == IF g.ok /\ g.v.some THEN construct_from(x_type, g.v.v) ELSE Err("", None)
    IN  IF ~g.ok THEN Err(g.err, None)
        ELSE IF ~g.v.some THEN Ok(None)
        ELSE IF ~x.ok THEN Err(x.err, None)
        ELSE Ok(Some(x.v))

\* $varname::remove: .v is self.0 afterwards
remove(self, key) ==
    LET k == write_to_new_cell(K, key)
    IN  IF ~k.ok THEN Err(k.err, self)
        ELSE HashmapE_remove(self, SliceFrom(IntoCell(k.v)))

-----------------------------------------------------------------------------
(* ChildCell<T>, with T = Grams *)

T == "Grams"

\* BuilderData::checked_append_references_and_data(slice)
checked_append_references_and_data(b, cursor) ==
    IF \/ Len(b.data) + Len(Rest(cursor).data) > BitsCapacity
       \/ Len(b.refs) + Len(Rest(cursor).refs) > RefsCapacity
    THEN Err("CellOverflow", b)
    ELSE Ok([data |-> b.data \o Rest(cursor).data, refs |-> b.refs \o Rest(cursor).refs])

\* Default for ChildCell<T> (derived)
ChildDefault == [cell |-> IntoCell(BuilderDefault)]

\* ChildCell::with_struct: .v is the ChildCell
with_struct(s) ==
    LET c == write_to_new_cell(T, s)
    IN  IF ~c.ok THEN Err(c.err, ChildDefault) ELSE Ok([cell |-> IntoCell(c.v)])

\* write_struct that encodes the value and keeps the cell it holds
write_struct_stale(self, s) ==
    LET c == write_to_new_cell(T, s)
    IN  IF ~c.ok THEN Err(c.err, self) ELSE Ok(self)

\* ChildCell::write_struct: .v is self afterwards
write_struct(self, s) ==
    LET c == write_to_new_cell(T, s)
    IN  IF ~c.ok THEN Err(c.err, self) ELSE Ok([self EXCEPT !.cell = IntoCell(c.v)])

\* read_struct without the test of the cell type
read_struct_unchecked(self) ==
    LET r == construct_from(T, SliceFrom(self.cell))
    IN  [ok |-> r.ok, err |-> r.err, name |-> "", v |-> r.v, decoded |-> TRUE]

\* ChildCell::read_struct: .v is the T returned, .name the type name an
\* error carries, .decoded whether construct_from was called
read_struct(self) ==
    IF self.cell.type = "PrunedBranch"
    THEN [ok |-> FALSE, err |-> "PrunedCellAccess", name |-> T, v |-> DefaultOf(T),
          decoded |-> FALSE]
    ELSE LET r == construct_from(T, SliceFrom(self.cell))
         IN  [ok |-> r.ok, err |-> r.err, name |-> "", v |-> r.v, decoded |-> TRUE]

\* ChildCell::cell
ChildCell_cell(self) == self.cell

\* write_to without the test of the builder
ChildCell_write_to_unchecked(self, bld) ==
    checked_append_references_and_data(bld, SliceFrom(self.cell))

\* Serializable for ChildCell<T>: .v is the builder afterwards
ChildCell_write_to(self, bld) ==
    IF ~is_empty(bld) THEN Err("InvalidArg", bld)
    ELSE checked_append_references_and_data(bld, SliceFrom(self.cell))

\* Deserializable for ChildCell<T>: .v is self, .s the cursor afterwards
ChildCell_read_from(self, cursor) ==
    IF ~is_full_cell_slice(cursor)
    THEN [ok |-> FALSE, err |-> "InvalidArg", v |-> self, s |-> cursor]
    ELSE [ok |-> TRUE, err |-> "", v |-> [self EXCEPT !.cell = cursor.cell], s |-> cursor]

-----------------------------------------------------------------------------
(* GenericId, on a structure [content, id]: id is what id_internal() and
   id_mut_internal() give access to *)

\* GetRepresentationHash::hash(): a function of the content, which fails
\* for a content that cannot be serialized
hash(c) == IF c = "unserializable" THEN Err("CellOverflow", "-") ELSE Ok(<<"hash", c>>)

\* calc_id that hashes whether or not an id is stored
calc_id_rehash(self) ==
    LET h == hash(self.content)
    IN  [ok |-> h.ok, err |-> h.err, v |-> h.v, self |-> self, hashed |-> TRUE]

\* GenericId::id: .v is the id returned, .self the structure afterwards,
\* .hashed whether hash() was called
id(self) ==
    IF self.id.some
    THEN [ok |-> TRUE, err |-> "", v |-> self.id.v, self |-> self, hashed |-> FALSE]
    ELSE LET h == hash(self.content)
         IN  IF ~h.ok
             THEN [ok |-> FALSE, err |-> h.err, v |-> "-", self |-> self, hashed |-> TRUE]
             ELSE [ok |-> TRUE, err |-> "", v |-> h.v,
                   self |-> [self EXCEPT !.id = Some(h.v)], hashed |-> TRUE]

\* GenericId::prepare_id
prepare_id(self) ==
    IF ~self.id.some
    THEN LET h == hash(self.content)
         IN  IF ~h.ok
             THEN [ok |-> FALSE, err |-> h.err, v |-> "-", self |-> self, hashed |-> TRUE]
             ELSE [ok |-> TRUE, err |-> "", v |-> "-",
                   self |-> [self EXCEPT !.id = Some(h.v)], hashed |-> TRUE]
    ELSE [ok |-> TRUE, err |-> "", v |-> "-", self |-> self, hashed |-> FALSE]

\* GenericId::calc_id
calc_id(self) ==
    IF self.id.some
    THEN [ok |-> TRUE, err |-> "", v |-> self.id.v, self |-> self, hashed |-> FALSE]
    ELSE LET h == hash(self.content)
         IN  [ok |-> h.ok, err |-> h.err, v |-> IF h.ok THEN h.v ELSE "-",
              self |-> self, hashed |-> TRUE]

-----------------------------------------------------------------------------
(* Bounds of the model *)

\* values range up to $N + MaxExtraBytes bytes
MaxExtraBytes == 1

\* bits that follow the encoding in a slice
TailLen == 3

\* add and sub calls on one amount
MaxOps == 2

-----------------------------------------------------------------------------
(* The inputs *)

\* the byte counts of the values tried: none, one, around $N
Sizes(t) == {0, 1} \cup ((N(t) - 1)..(N(t) + MaxExtraBytes))

\* the largest and the smallest magnitude of k bytes
MagsOf(k) == IF k = 0 THEN {<<>>} ELSE {Ones(8 * k), Pow2(8 * (k - 1))}

\* arguments of From<T>: BigInts for the BigInt arm, $tt words for the primitive arm
FromInputs(t) ==
    IF t \in BigIntTypes
    THEN {BigOf("Minus", <<1>>)}
         \cup {BigOf("Plus", m) : m \in UNION {MagsOf(k) : k \in Sizes(t)}}
    ELSE {Low(m, Width(t)) :
             m \in UNION {MagsOf(k) : k \in {j \in Sizes(t) : 8 * j <= Width(t)}}}

\* u128 arguments of from_two_u128
U128Inputs == {Low(m, 128) : m \in {<<>>, Ones(120), Pow2(120)}}

\* first bits of a destination builder: none, a few, and all but two
Prefixes == {<<>>, <<1, 0, 1>>, Ones(BitsCapacity - 2)}

\* the bits after an encoding
Tails == {<<>>, Ones(TailLen)}

\* length fields tried by hand-made slices
LenFields(t) ==
    LET w == IF t \in BigIntTypes THEN get_len_len(t) ELSE LenBits(t)
    IN  {Low(NatBits(k), w) : k \in {j \in {0, 1, N(t) - 1, N(t)} : Len(NatBits(j)) <= w}}

\* hand-made slices: a length field, then as many bytes, or one bit too few
Crafted(t) ==
    {<<>>} \cup
    UNION {{f \o Ones(8 * BitsNat(f)) \o tl : tl \in Tails}
           \cup {f \o Ones(8 * BitsNat(f) - 1) : x \in {y \in {1} : BitsNat(f) > 0}}
           : f \in LenFields(t)}

-----------------------------------------------------------------------------
(* The state *)

\* Default::default() of the type t
NoCall ==
    [op |-> "none", ok |-> TRUE, err |-> "", a |-> "-", b |-> "-", pre |-> "-", ret |-> "-"]

\* the ghost of a builder: whether it is still owned (not moved into a cell),
\* the number of bits it started with, the value written into it and the
\* number of bits that write appended
EmptyLog == [live |-> TRUE, prefix |-> 0, vals |-> <<>>, ns |-> <<>>]

Moved == [EmptyLog EXCEPT !.live = FALSE]

NonNeg(t, v) == t \notin BigIntTypes \/ v.sign # "Minus"

InitVar(t) ==
    /\ ty = t
    /\ val = DefaultOf(t)
    /\ got = DefaultOf(t)
    /\ builder = BuilderDefault
    /\ slice = SliceFrom(IntoCell(BuilderDefault))
    /\ origin = [kind |-> "crafted"]
    /\ log = EmptyLog
    /\ res = NoCall
    /\ nops = 0
    /\ clean = TRUE
    /\ map = MapDefault
    /\ shadow = EmptyMap
    /\ child = ChildDefault
    /\ written = NothingWritten
    /\ content = "a"
    /\ id_internal = None
    /\ seen = NoneSeen

NoSlice == SliceFrom(IntoCell(BuilderDefault))

\* every constructor call starts afresh: a default builder, no slice, a
\* default value to read into
FreshCodec ==
    /\ got' = DefaultOf(ty)
    /\ builder' = BuilderDefault
    /\ log' = EmptyLog
    /\ slice' = NoSlice
    /\ origin' = [kind |-> "crafted"]

\* a constructor returned value v
Constructed(op, v) ==
    /\ val' = v
    /\ res' = [NoCall EXCEPT !.op = op]
    /\ nops' = 0
    /\ clean' = NonNeg(ty, v)
    /\ FreshCodec
    /\ UNCHANGED ty
    /\ UNCHANGED nonCodec

\* a constructor failed: there is no new value
NotConstructed(op, err) ==
    /\ res' = [NoCall EXCEPT !.op = op, !.ok = FALSE, !.err = err]
    /\ FreshCodec
    /\ UNCHANGED <<ty, val, nops, clean>>
    /\ UNCHANGED nonCodec

\* $varname::zero()
Zero ==
    /\ ty \in BigIntTypes
    /\ Constructed("zero", BigZero)

\* $varname::one()
One ==
    /\ ty \in BigIntTypes
    /\ Constructed("one", BigOne)

\* $varname::default()
Default == Constructed("default", DefaultOf(ty))

\* $varname::from_two_u128(hi, lo)
from_two_u128(hi, lo) ==
    /\ ty \in BigIntTypes
    /\ LET v == FromTwo(hi, lo)
           c == check_owerflow(ty, v)
       IN  IF c.ok THEN Constructed("from_two_u128", v)
           ELSE NotConstructed("from_two_u128", c.err)

\* $varname::from(value): the BigInt arm panics where check_owerflow fails
From(value) ==
    IF ty \in BigIntTypes
    THEN LET c == check_owerflow(ty, value)
         IN  IF c.ok THEN Constructed("from", value)
             ELSE NotConstructed("from", "panic: Integer overflow")
    ELSE Constructed("from", value)

\* a destination builder that holds the bits p; the slice of before is dropped
NewBuilder(p) ==
    /\ builder' = [data |-> p, refs |-> <<>>]
    /\ log' = [EmptyLog EXCEPT !.prefix = Len(p)]
    /\ slice' = NoSlice
    /\ origin' = [kind |-> "crafted"]
    /\ got' = DefaultOf(ty)
    /\ res' = [NoCall EXCEPT !.op = "new_builder"]
    /\ UNCHANGED <<ty, val, nops, clean>>
    /\ UNCHANGED nonCodec

\* self.write_to(&mut builder)
WriteTo ==
    /\ log.live
    /\ log.vals = <<>>
    /\ LET r == write_to(ty, val, builder)
       IN  /\ builder' = r.v
           /\ res' = [NoCall EXCEPT !.op = "write_to", !.ok = r.ok, !.err = r.err,
                                    !.a = val, !.pre = builder]
           /\ log' = IF r.ok
                     THEN [log EXCEPT !.vals = Append(@, val),
                                      !.ns = Append(@, Len(r.v.data) - Len(builder.data))]
                     ELSE log
    /\ UNCHANGED <<ty, val, got, slice, origin, nops, clean>>
    /\ UNCHANGED nonCodec

\* SliceData::from(builder.into()) of a builder a value was written into, with
\* the bits tl after the builder's; the builder is moved into the cell
SliceOfBuilder(tl) ==
    /\ log.live
    /\ log.vals # <<>>
    /\ Len(builder.data) + Len(tl) <= BitsCapacity
    /\ slice' = SliceFrom(IntoCell([builder EXCEPT !.data = @ \o tl]))
    /\ origin' = [kind |-> "written", log |-> log, tail |-> tl]
    /\ builder' = BuilderDefault
    /\ log' = Moved
    /\ got' = DefaultOf(ty)
    /\ res' = [NoCall EXCEPT !.op = "new_slice"]
    /\ UNCHANGED <<ty, val, nops, clean>>
    /\ UNCHANGED nonCodec

\* a slice over a cell of the bits d
SliceOfBits(d) ==
    /\ slice' = SliceFrom(Cell("Ordinary", d, <<>>))
    /\ origin' = [kind |-> "crafted"]
    /\ builder' = BuilderDefault
    /\ log' = Moved
    /\ got' = DefaultOf(ty)
    /\ res' = [NoCall EXCEPT !.op = "new_slice"]
    /\ UNCHANGED <<ty, val, nops, clean>>
    /\ UNCHANGED nonCodec

\* got.read_from(&mut slice)
ReadFrom ==
    /\ LET r == read_from(ty, got, slice)
       IN  /\ got' = r.v
           /\ slice' = r.s
           /\ res' = [NoCall EXCEPT !.op = "read_from", !.ok = r.ok, !.err = r.err,
                                    !.a = got, !.pre = slice]
    /\ UNCHANGED <<ty, val, builder, origin, log, nops, clean>>
    /\ UNCHANGED nonCodec

\* the other amounts of add and sub: minus one, zero, one, the largest value
\* of N-1 bytes, the smallest of N bytes
Operands(t) ==
    {BigOf("Minus", <<1>>), BigZero, BigOne,
     BigOf("Plus", Ones(8 * (N(t) - 1))), BigOf("Plus", Pow2(8 * (N(t) - 1)))}

\* self.add(&other)
Add(other) ==
    /\ ty \in BigIntTypes
    /\ nops < MaxOps
    /\ val' = add(val, other)
    /\ res' = [NoCall EXCEPT !.op = "add", !.a = val, !.b = other]
    /\ nops' = nops + 1
    /\ clean' = (clean /\ NonNeg(ty, other))
    /\ FreshCodec
    /\ UNCHANGED ty
    /\ UNCHANGED nonCodec

\* self.sub(&other)
Sub(other) ==
    /\ ty \in BigIntTypes
    /\ nops < MaxOps
    /\ LET r == sub(val, other)
       IN  /\ val' = r.v
           /\ res' = [NoCall EXCEPT !.op = "sub", !.a = val, !.b = other, !.ret = r.ret]
    /\ nops' = nops + 1
    /\ clean' = (clean /\ NonNeg(ty, other))
    /\ FreshCodec
    /\ UNCHANGED ty
    /\ UNCHANGED nonCodec

NextVar ==
    \/ Zero
    \/ One
    \/ Default
    \/ \E hi \in U128Inputs, lo \in U128Inputs : from_two_u128(hi, lo)
    \/ \E v \in FromInputs(ty) : From(v)
    \/ \E p \in Prefixes : NewBuilder(p)
    \/ WriteTo
    \/ \E tl \in Tails : SliceOfBuilder(tl)
    \/ \E d \in Crafted(ty) : SliceOfBits(d)
    \/ ReadFrom

\* the codecs and constructors of the variable-length integer family
SpecVar == (\E t \in VarTypes : InitVar(t)) /\ [][NextVar]_vars

NextAmount ==
    \/ \E v \in FromInputs(ty) : From(v)
    \/ \E o \in Operands(ty) : Add(o)
    \/ \E o \in Operands(ty) : Sub(o)

\* the arithmetic of the currency amounts
SpecAmount == (\E t \in BigIntTypes : InitVar(t)) /\ [][NextAmount]_vars

-----------------------------------------------------------------------------
(* The bounded integers *)

\* u32 arguments of from_u32: 0, 1, 2^N - 1, 2^N and u32::MAX
U32Inputs(t) ==
    {Low(m, 32) : m \in {<<>>, <<1>>, Ones(NumBits(t)), Ones(32)}
                        \cup {Pow2(n) : n \in {k \in {NumBits(t)} : k < 32}}}

\* hand-made slices: nothing, one bit too few, N bits and bits after them
CraftedNum(t) ==
    {<<>>, Ones(NumBits(t) - 1)} \cup {Ones(NumBits(t)) \o tl : tl \in Tails}

\* $varname::from_u32(value, max_value)
FromU32(value, max_value) ==
    LET r == from_u32(value, max_value)
    IN  /\ val' = IF r.ok THEN r.v ELSE val
        /\ res' = [NoCall EXCEPT !.op = "from_u32", !.ok = r.ok, !.err = r.err,
                                 !.a = value, !.b = max_value]
        /\ FreshCodec
        /\ UNCHANGED <<ty, nops, clean>>
        /\ UNCHANGED nonCodec

\* $varname::get_max_len()
GetMaxLen ==
    /\ res' = [NoCall EXCEPT !.op = "get_max_len", !.ret = get_max_len(ty)]
    /\ FreshCodec
    /\ UNCHANGED <<ty, val, nops, clean>>
    /\ UNCHANGED nonCodec

NextNum ==
    \/ Default
    \/ \E v \in U32Inputs(ty), m \in U32Inputs(ty) : FromU32(v, m)
    \/ GetMaxLen
    \/ \E p \in Prefixes : NewBuilder(p)
    \/ WriteTo
    \/ \E tl \in Tails : SliceOfBuilder(tl)
    \/ \E d \in CraftedNum(ty) : SliceOfBits(d)
    \/ ReadFrom

\* the constructors and codecs of the NumberN types
SpecNum == (\E t \in NumTypes : InitVar(t)) /\ [][NextNum]_vars

-----------------------------------------------------------------------------
(* Properties of the variable-length integers *)

Constructors == {"zero", "one", "default", "from_two_u128", "from"}

\* the last call read a slice made of one value written into an empty builder,
\* from the slice's first bit
ReadBack ==
    /\ res.op = "read_from"
    /\ origin.kind = "written"
    /\ origin.log.prefix = 0
    /\ res.pre.pos = 0

\* the destination had room for the encoding of the value the last call wrote
HadRoom ==
    Len(res.pre.data) + get_len_len(ty) + 8 * get_len(res.a) <= BitsCapacity

\* C1: for Grams and VarUInteger32 and a non-negative value of at most N-1
\* bytes, write_to into an empty builder succeeds and appends the length
\* field and len*8 bits; read_from on these bits succeeds, returns an equal
\* value, consumes exactly the bits appended and leaves the bits after them.
C1_RoundTrip ==
    ty \in BigIntTypes =>
      /\ (/\ res.op = "write_to"
          /\ is_empty(res.pre)
          /\ NonNeg(ty, res.a)
          /\ get_len(res.a) <= N(ty) - 1)
         => /\ res.ok
            /\ Len(builder.data) = get_len_len(ty) + 8 * get_len(res.a)
      /\ (ReadBack /\ NonNeg(ty, origin.log.vals[1]))
         => /\ res.ok
            /\ got = origin.log.vals[1]
            /\ slice.pos = origin.log.ns[1]
            /\ slice.pos = get_len_len(ty) + 8 * get_len(got)
            /\ Remaining(slice) = origin.tail
            /\ slice.cell = res.pre.cell
            /\ slice.end = res.pre.end

\* a value of N-1 bytes was written, followed by other bits, and read back
C1_Witness ==
    /\ ty \in BigIntTypes
    /\ ReadBack
    /\ res.ok
    /\ get_len(got) = N(ty) - 1
    /\ origin.tail # <<>>
    /\ Remaining(slice) = origin.tail

\* C2: for Grams and VarUInteger32, encoding a value of exactly N-1 bytes
\* succeeds (in a destination with room for it); encoding a value of N bytes
\* fails with RangeCheckError and leaves the destination as it was; zero is
\* encoded as a length field of zeros (4 bits for Grams) and nothing else,
\* and these bits decode to zero.
C2_Boundary ==
    ty \in BigIntTypes =>
      /\ (res.op = "write_to" /\ get_len(res.a) = N(ty) - 1 /\ HadRoom)
         => res.ok
      /\ (res.op = "write_to" /\ get_len(res.a) = N(ty))
         => (~res.ok /\ res.err = "RangeCheckError" /\ builder = res.pre)
      /\ (res.op = "write_to" /\ res.a = BigZero /\ HadRoom)
         => /\ res.ok
            /\ builder.data = res.pre.data \o Zeros(get_len_len(ty))
            /\ ty = "Grams" => builder.data = res.pre.data \o <<0, 0, 0, 0>>
      /\ (ReadBack /\ origin.log.vals[1] = BigZero)
         => (res.ok /\ got = BigZero /\ slice.pos = get_len_len(ty))

\* a value of N bytes was refused by a builder that already held bits
C2_Witness ==
    /\ ty \in BigIntTypes
    /\ res.op = "write_to"
    /\ get_len(res.a) = N(ty)
    /\ ~res.ok
    /\ res.pre.data = <<1, 0, 1>>
    /\ builder = res.pre

\* the width of the length field of the type t
FieldBits(t) == IF t \in BigIntTypes THEN get_len_len(t) ELSE LenBits(t)

\* the length field the slice s starts with, -1 if s is shorter than the field
FieldOf(t, s) ==
    IF s.end - s.pos < FieldBits(t) THEN -1
    ELSE BitsNat(SubSeq(s.cell.data, s.pos + 1, s.pos + FieldBits(t)))

\* C3: for Grams, VarUInteger32, VarUInteger3 and VarUInteger7, write_to
\* fails for every value that needs N or more bytes and read_from fails for
\* every input whose length field holds N or more.
C3_LengthNRejected ==
    /\ (res.op = "write_to" /\ ByteLen(ty, res.a) >= N(ty)) => ~res.ok
    /\ (res.op = "read_from" /\ FieldOf(ty, res.pre) >= N(ty)) => ~res.ok

\* C4: every Grams / VarUInteger32 value that a constructor returns has a
\* magnitude of at most N-1 bytes and can be encoded by write_to.
C4_ConstructedFits ==
    (ty \in BigIntTypes /\ res.op \in Constructors /\ res.ok)
    => /\ get_len(val) <= N(ty) - 1
       /\ write_to(ty, val, BuilderDefault).ok

\* C5: a.sub(b) returns Ok(true) and sets a to a-b if and only if a >= b
\* before the call, and otherwise returns Ok(false) and leaves a as it was;
\* an amount built and changed with non-negative values only is never
\* negative.
C5_SubChecked ==
    /\ res.op = "sub" =>
         /\ res.ok
         /\ res.ret = (BigSub(res.a, res.b).sign # "Minus")
         /\ res.ret => BigAdd(val, res.b) = res.a
         /\ ~res.ret => val = res.a
    /\ (ty \in BigIntTypes /\ clean) => val.sign # "Minus"

\* after an earlier add or sub, a sub of a larger amount was refused
C5_Witness ==
    /\ res.op = "sub"
    /\ nops >= 2
    /\ clean
    /\ res.ret = FALSE
    /\ res.a.sign = "Plus"
    /\ val = res.a

-----------------------------------------------------------------------------
(* Properties of the bounded integers *)

\* the u32 word v fits in the N bits of the type t
FitsIn(t, v) == Len(Strip(v)) <= NumBits(t)

\* the round trip of the value written into an empty builder and read back
NumReadBackEqual ==
    /\ res.ok
    /\ got = origin.log.vals[1]
    /\ slice.pos = NumBits(ty)
    /\ origin.log.ns[1] = NumBits(ty)
    /\ Remaining(slice) = origin.tail

\* from_u32 succeeds iff value <= max_value, and fails with InvalidArg;
\* get_max_len() is 2^N - 1
NumConstruct ==
    /\ res.op = "from_u32" =>
         /\ res.ok = U32Le(res.a, res.b)
         /\ res.ok => val = res.a
         /\ ~res.ok => res.err = "InvalidArg"
    /\ res.op = "get_max_len" => Strip(res.ret) = Ones(NumBits(ty))

\* C6 as stated: from_u32 succeeds iff value <= max; get_max_len() is
\* 2^N - 1; every value from_u32 accepts fits in N bits, and write_to
\* followed by read_from returns it, reading exactly the N bits written.
C6_Original ==
    /\ NumConstruct
    /\ (res.op = "from_u32" /\ res.ok) => FitsIn(ty, val)
    /\ ReadBack => NumReadBackEqual

\* C6 amended: from_u32 succeeds iff value <= max; get_max_len() is 2^N - 1;
\* every value from_u32 accepts with max_value <= get_max_len() fits in N
\* bits, and every value that fits in N bits is returned by write_to followed
\* by read_from, which reads exactly the N bits written.
C6_Amended ==
    /\ NumConstruct
    /\ (res.op = "from_u32" /\ res.ok /\ U32Le(res.b, Low(get_max_len(ty), 32)))
       => FitsIn(ty, val)
    /\ (ReadBack /\ FitsIn(ty, origin.log.vals[1])) => NumReadBackEqual

\* the largest value of N bits was written, followed by other bits, read back
C6_Witness ==
    /\ ty \in NumTypes
    /\ ReadBack
    /\ res.ok
    /\ Strip(got) = Ones(NumBits(ty))
    /\ origin.tail # <<>>
    /\ Remaining(slice) = origin.tail

-----------------------------------------------------------------------------
(* The typed map: calls on one define_HashmapE!(_, 8, Grams) map *)

NumKeys == 3

\* the u8 keys 0 .. NumKeys - 1
MapKeys == {Low(NatBits(i), 8) : i \in 0..(NumKeys - 1)}

\* amounts of 1 and N-1 bytes, and one of N bytes, which from() accepts and
\* write_to refuses
MapValues ==
    {BigOne, BigOf("Plus", Ones(8 * (N(x_type) - 1))),
     BigOf("Plus", Pow2(8 * (N(x_type) - 1)))}

\* the keys present according to the ghost
Present(sh) == {k \in DOMAIN sh : sh[k].some}

\* the ghost after key is set to v (Some) or removed (None)
Put(sh, key, v) == [k \in DOMAIN sh \cup {key} |-> IF k = key THEN v ELSE sh[k]]

MapCall(op, r, a, b, ret) ==
    /\ res' = [NoCall EXCEPT !.op = op, !.ok = r.ok, !.err = r.err,
                             !.a = a, !.b = b, !.pre = map, !.ret = ret]
    /\ UNCHANGED <<codecVars, child, written, idVars>>

MapSet(key, value) ==
    LET r == set(map, key, value)
    IN  /\ map' = r.v
        /\ shadow' = IF r.ok THEN Put(shadow, key, Some(value)) ELSE shadow
        /\ MapCall("set", r, key, value, "-")

MapRemove(key) ==
    LET r == remove(map, key)
    IN  /\ map' = r.v
        /\ shadow' = IF r.ok THEN Put(shadow, key, None) ELSE shadow
        /\ MapCall("remove", r, key, "-", "-")

MapGet(key) ==
    LET r == get(map, key)
    IN  /\ MapCall("get", r, key, "-", r.v)
        /\ UNCHANGED mapVars

MapLen ==
    LET r == len(map)
    IN  /\ MapCall("len", r, "-", "-", r.v)
        /\ UNCHANGED mapVars

\* iterate with a callback that stops at its stop-th call (0: never)
MapIterate(stop) ==
    LET r == iterate(map, stop)
    IN  /\ MapCall("iterate", r, r.calls, stop, r.v)
        /\ UNCHANGED mapVars

MapIterateWithKeys(stop) ==
    LET r == iterate_with_keys(map, stop)
    IN  /\ MapCall("iterate_with_keys", r, r.calls, stop, r.v)
        /\ UNCHANGED mapVars

NextMap ==
    \/ \E k \in MapKeys, v \in MapValues : MapSet(k, v)
    \/ \E k \in MapKeys : MapRemove(k)
    \/ \E k \in MapKeys : MapGet(k)
    \/ MapLen
    \/ \E stop \in 0..NumKeys : MapIterate(stop)
    \/ \E stop \in 0..NumKeys : MapIterateWithKeys(stop)

SpecMap == InitVar(x_type) /\ [][NextMap]_vars

\* the number of calls of the callback with the argument x
Times(calls, x) == Cardinality({i \in 1..Len(calls) : calls[i] = x})

\* C7: after any sequence of set and remove, get(k) is Some(v) for the value
\* last set under k and None for a key never set or removed since; len() is
\* the number of keys present; iterate and iterate_with_keys with a callback
\* that never stops call it exactly once per key present, with the decoded
\* value (and key).
C7_TypedMap ==
    /\ res.op = "get" =>
         /\ res.ok
         /\ res.ret = IF res.a \in DOMAIN shadow THEN shadow[res.a] ELSE None
    /\ res.op = "len" => res.ok /\ res.ret = Cardinality(Present(shadow))
    /\ (res.op = "iterate" /\ res.b = 0) =>
         /\ res.ok /\ res.ret = TRUE
         /\ Len(res.a) = Cardinality(Present(shadow))
         /\ \A k \in Present(shadow) :
               Times(res.a, shadow[k].v)
                   = Cardinality({j \in Present(shadow) : shadow[j] = shadow[k]})
    /\ (res.op = "iterate_with_keys" /\ res.b = 0) =>
         /\ res.ok /\ res.ret = TRUE
         /\ Len(res.a) = Cardinality(Present(shadow))
         /\ \A k \in Present(shadow) : Times(res.a, <<k, shadow[k].v>>) = 1

\* a key was removed and two keys hold different values: the full iteration
\* with keys visits the two keys present
C7_Witness ==
    /\ res.op = "iterate_with_keys" /\ res.b = 0
    /\ Cardinality(Present(shadow)) = 2
    /\ \E k \in DOMAIN shadow : ~shadow[k].some
    /\ Len(res.a) = 2 /\ res.a[1][2] # res.a[2][2]

-----------------------------------------------------------------------------
(* The child reference: calls on one ChildCell<Grams>, a builder, a cursor *)

\* a pruned branch cell: the type byte, the level mask and (short) hash bits
PrunedStub(h) == Cell("PrunedBranch", Low(<<1>>, 8) \o Low(<<1>>, 8) \o h, <<>>)

\* the cells a cursor is made of
ChildCells ==
    {IntoCell(BuilderDefault),
     IntoCell(write_to_new_cell(T, BigOf("Plus", Ones(8))).v),
     Cell("Ordinary", Ones(TailLen), <<"h1", "h2">>),
     PrunedStub(Zeros(8)), PrunedStub(Ones(8))}

\* the cursors: over all of a cell, or with a bit or a reference consumed
\* at the front or cut off at the back
ChildSlices ==
    {SliceFrom(c) : c \in ChildCells}
    \cup {[SliceFrom(c) EXCEPT !.pos = 1] : c \in {x \in ChildCells : x.data # <<>>}}
    \cup {[SliceFrom(c) EXCEPT !.end = @ - 1] : c \in {x \in ChildCells : x.data # <<>>}}
    \cup {[SliceFrom(c) EXCEPT !.rpos = 1] : c \in {x \in ChildCells : x.refs # <<>>}}
    \cup {[SliceFrom(c) EXCEPT !.rend = @ - 1] : c \in {x \in ChildCells : x.refs # <<>>}}

ChildBuilders ==
    {BuilderDefault, [data |-> <<1, 0, 1>>, refs |-> <<>>], [data |-> <<1>>, refs |-> <<"h1">>]}

\* the ghost after with_struct or write_struct stored s
Stored(s, by) == [v |-> Some(s), by |-> by, reads |-> <<>>]

\* the last two of the results rs and r
LastTwo(rs, r) == IF rs = <<>> THEN <<r>> ELSE <<rs[Len(rs)], r>>

ChildCall(op, r, a, b, pre, ret) ==
    /\ res' = [NoCall EXCEPT !.op = op, !.ok = r.ok, !.err = r.err,
                             !.a = a, !.b = b, !.pre = pre, !.ret = ret]
    /\ UNCHANGED <<ty, val, got, origin, log, nops, clean, mapVars, idVars>>

ChildBuilder(b) ==
    /\ builder' = b
    /\ ChildCall("new_builder", Ok(b), "-", "-", "-", "-")
    /\ UNCHANGED <<child, written, slice>>

ChildSlice(s) ==
    /\ slice' = s
    /\ ChildCall("new_slice", Ok(s), "-", "-", "-", "-")
    /\ UNCHANGED <<child, written, builder>>

WithStruct(s) ==
    LET r == with_struct(s)
    IN  /\ child' = IF r.ok THEN r.v ELSE child
        /\ written' = IF r.ok THEN Stored(s, "with_struct") ELSE written
        /\ ChildCall("with_struct", r, s, "-", child, "-")
        /\ UNCHANGED <<builder, slice>>

WriteStruct(s) ==
    LET r == write_struct(child, s)
    IN  /\ child' = r.v
        /\ written' = IF r.ok THEN Stored(s, "write_struct") ELSE written
        /\ ChildCall("write_struct", r, s, "-", child, "-")
        /\ UNCHANGED <<builder, slice>>

ReadStruct ==
    LET r == read_struct(child)
    IN  /\ ChildCall("read_struct", r, r.name, r.decoded, child, r.v)
        /\ written' = [written EXCEPT !.reads = LastTwo(@, [ok |-> r.ok, err |-> r.err, v |-> r.v])]
        /\ UNCHANGED <<child, builder, slice>>

CellOf ==
    /\ ChildCall("cell", Ok(child), "-", "-", child, ChildCell_cell(child))
    /\ UNCHANGED <<child, written, builder, slice>>

ChildWriteTo ==
    LET r == ChildCell_write_to(child, builder)
    IN  /\ builder' = r.v
        /\ ChildCall("ChildCell::write_to", r, child, "-", builder, "-")
        /\ UNCHANGED <<child, written, slice>>

ChildReadFrom ==
    LET r == ChildCell_read_from(child, slice)
    IN  /\ child' = r.v
        /\ slice' = r.s
        /\ written' = IF r.ok THEN NothingWritten ELSE written
        /\ ChildCall("ChildCell::read_from", r, child, "-", slice, "-")
        /\ UNCHANGED builder

NextChild ==
    \/ \E b \in ChildBuilders : ChildBuilder(b)
    \/ \E s \in ChildSlices : ChildSlice(s)
    \/ \E s \in MapValues : WithStruct(s)
    \/ \E s \in MapValues : WriteStruct(s)
    \/ ReadStruct
    \/ CellOf
    \/ ChildWriteTo
    \/ ChildReadFrom

SpecChild == InitVar(T) /\ [][NextChild]_vars

\* C8: while the held cell is a pruned branch, read_struct fails with
\* PrunedCellAccess carrying the type name of T and does not decode, and
\* cell() returns the held cell; read_struct leaves the held cell unchanged
\* whether it succeeds or fails.
C8_PrunedBranch ==
    /\ (res.op = "read_struct" /\ child.cell.type = "PrunedBranch") =>
         /\ ~res.ok /\ res.err = "PrunedCellAccess"
         /\ res.a = T
         /\ res.b = FALSE
    /\ res.op = "cell" => res.ret = child.cell
    /\ res.op = "read_struct" => child = res.pre

\* read_struct was called on a ChildCell holding a pruned branch
C8_Witness ==
    /\ res.op = "read_struct"
    /\ child.cell \in {PrunedStub(Zeros(8)), PrunedStub(Ones(8))}
    /\ ~res.ok

\* C9: ChildCell::write_to fails with InvalidArg and leaves the builder
\* unchanged when the builder is not empty, and makes an empty builder hold
\* the bits and references of the held cell; ChildCell::read_from fails with
\* InvalidArg and leaves the held cell and the cursor unchanged when the
\* cursor is not over all of its cell, and otherwise the held cell is the
\* cell of the cursor.
C9_WholeCellOnly ==
    /\ res.op = "ChildCell::write_to" =>
         IF res.pre.data = <<>> /\ res.pre.refs = <<>>
         THEN /\ res.ok
              /\ builder.data = child.cell.data
              /\ builder.refs = child.cell.refs
         ELSE /\ ~res.ok /\ res.err = "InvalidArg"
              /\ builder = res.pre
    /\ res.op = "ChildCell::read_from" =>
         IF /\ Remaining(res.pre) = res.pre.cell.data
            /\ res.pre.rpos = 0 /\ res.pre.rend = Len(res.pre.cell.refs)
         THEN /\ res.ok
              /\ child.cell = slice.cell
         ELSE /\ ~res.ok /\ res.err = "InvalidArg"
              /\ child = res.a
              /\ slice = res.pre

\* a cell with references was adopted by read_from and written by write_to
C9_Witness ==
    /\ res.op = "ChildCell::write_to" /\ res.ok
    /\ builder.refs = <<"h1", "h2">>
    /\ child.cell.refs = <<"h1", "h2">>

-----------------------------------------------------------------------------
(* The identity: calls on one structure that implements GenericId *)

Contents == {"a", "b", "unserializable"}

\* the structure
Self == [content |-> content, id |-> id_internal]

\* a call of GenericId: the result, the structure afterwards, and the call
\* with its snapshot in the ghost
IdCall(op, r) ==
    /\ id_internal' = r.self.id
    /\ res' = [NoCall EXCEPT !.op = op, !.ok = r.ok, !.err = r.err, !.a = content,
                             !.b = r.hashed, !.pre = id_internal, !.ret = r.v]
    /\ UNCHANGED <<codecVars, mapVars, child, written, content>>

Snapshot(r) == Some([content |-> content, cache |-> id_internal, ok |-> r.ok, ret |-> r.v])

\* the owner of the structure changes its content; the stored id stays
Mutate(c) ==
    /\ c # content
    /\ content' = c
    /\ res' = [NoCall EXCEPT !.op = "mutate"]
    /\ UNCHANGED <<codecVars, mapVars, child, written, id_internal, seen>>

Id ==
    /\ IdCall("id", id(Self))
    /\ seen' = [seen EXCEPT !.id = Snapshot(id(Self))]

PrepareId ==
    /\ IdCall("prepare_id", prepare_id(Self))
    /\ UNCHANGED seen

CalcId ==
    /\ IdCall("calc_id", calc_id(Self))
    /\ seen' = [seen EXCEPT !.calc = Snapshot(calc_id(Self))]

NextId ==
    \/ \E c \in Contents : Mutate(c)
    \/ Id
    \/ PrepareId
    \/ CalcId

SpecId == InitVar(T) /\ [][NextId]_vars

\* C10: id(), prepare_id() and calc_id() never change or clear a stored id;
\* id() and prepare_id() call hash() exactly when no id is stored, so id()
\* with a stored id returns it without hashing, and a successful first id()
\* stores what it returns; calc_id() never changes the stored state; when
\* hash() fails no id is stored and the error is returned; id() and
\* calc_id() called on the same snapshot return the same.
C10_Memoized ==
    /\ (res.op \in {"id", "prepare_id", "calc_id"} /\ res.pre.some) =>
         id_internal = res.pre
    /\ res.op \in {"id", "prepare_id"} => (res.b <=> ~res.pre.some)
    /\ (res.op = "id" /\ res.pre.some) => res.ok /\ res.ret = res.pre.v
    /\ (res.op = "id" /\ ~res.pre.some /\ res.ok) => id_internal = Some(res.ret)
    /\ res.op = "calc_id" => id_internal = res.pre
    /\ (res.op \in {"id", "prepare_id", "calc_id"} /\ ~res.ok) =>
         /\ ~id_internal.some
         /\ res.b /\ res.err = hash(res.a).err
    /\ ( /\ seen.id.some /\ seen.calc.some
         /\ seen.id.v.content = seen.calc.v.content
         /\ seen.id.v.cache = seen.calc.v.cache ) =>
         /\ seen.id.v.ok = seen.calc.v.ok
         /\ seen.id.v.ret = seen.calc.v.ret

\* id() returned the stored id of a structure changed since, without
\* hashing, and calc_id() was called on the same snapshot
C10_Witness ==
    /\ res.op = "id" /\ res.pre.some /\ ~res.b
    /\ res.ret # hash(content).v
    /\ seen.calc.some /\ seen.calc.v.content = content /\ seen.calc.v.cache = res.pre

-----------------------------------------------------------------------------
(* The accumulation: an amount is built, added to, and then written *)

\* self.calc(&other) of Augmentable for Grams
Calc(other) ==
    /\ ty = "Grams"
    /\ nops < MaxOps
    /\ val' = calc(val, other)
    /\ res' = [NoCall EXCEPT !.op = "calc", !.a = val, !.b = other]
    /\ nops' = nops + 1
    /\ clean' = (clean /\ NonNeg(ty, other))
    /\ FreshCodec
    /\ UNCHANGED ty
    /\ UNCHANGED nonCodec

NextAccum ==
    \/ \E v \in FromInputs(ty) : From(v)
    \/ \E o \in Operands(ty) : Add(o)
    \/ \E o \in Operands(ty) : Calc(o)
    \/ \E p \in Prefixes : NewBuilder(p)
    \/ WriteTo

SpecAccum == (\E t \in BigIntTypes : InitVar(t)) /\ [][NextAccum]_vars

\* x is not negative and has at most 8 bits
Small(x) == x.sign # "Minus" /\ Len(x.mag) <= 8

\* C11: add (and calc of Grams) returns Ok and sets the receiver to the
\* exact sum without a range check; a later write_to of an amount of N or
\* more bytes fails with RangeCheckError and leaves the destination as it
\* was, and write_to into a destination with room succeeds exactly when the
\* amount needs at most N-1 bytes.
C11_TwoPhase ==
    /\ res.op \in {"add", "calc"} =>
         /\ res.ok
         /\ BigSub(val, res.b) = res.a
         /\ BigSub(val, res.a) = res.b
         /\ (Small(res.a) /\ Small(res.b)) =>
               /\ val.sign # "Minus"
               /\ BitsNat(val.mag) = BitsNat(res.a.mag) + BitsNat(res.b.mag)
    /\ (res.op = "write_to" /\ ty \in BigIntTypes) =>
         /\ get_len(res.a) >= N(ty) =>
               (~res.ok /\ res.err = "RangeCheckError" /\ builder = res.pre)
         /\ HadRoom => (res.ok <=> get_len(res.a) <= N(ty) - 1)

\* the sum of two amounts of N-1 bytes, a value of N bytes that only adding
\* gives, was refused by write_to
C11_Witness ==
    /\ res.op = "write_to"
    /\ nops >= 1
    /\ res.a = BigOf("Plus", Ones(8 * (N(ty) - 1)) \o <<0>>)
    /\ ~res.ok /\ res.err = "RangeCheckError"

-----------------------------------------------------------------------------
(* Properties of the value a ChildCell stores *)

\* C12: after with_struct(v0) and successful write_struct(v_i) calls,
\* read_struct returns a value equal to the one stored last; read_struct
\* calls with no assignment of the held cell between them return equal
\* results; a write_struct that fails to encode leaves the held cell
\* unchanged.
C12_StructRoundTrip ==
    /\ (res.op = "read_struct" /\ written.v.some) =>
         /\ res.ok
         /\ res.ret = written.v.v
    /\ Len(written.reads) = 2 => written.reads[1] = written.reads[2]
    /\ (res.op = "write_struct" /\ ~res.ok) => child = res.pre

\* the largest amount of N-1 bytes was stored by write_struct and read twice
C12_Witness ==
    /\ res.op = "read_struct" /\ res.ok
    /\ written.by = "write_struct"
    /\ written.v = Some(BigOf("Plus", Ones(8 * (N(T) - 1))))
    /\ Len(written.reads) = 2
    /\ res.ret = written.v.v

====
